---- MODULE Spec2Model ----
(***************************************************************************)
(* A model of the telemetry collector (src/api/main.py): the bearer-token  *)
(* check, the pydantic schema gate, the append to the per-(address, day)   *)
(* partition file and the glob-and-replay query; and of the sampling agent *)
(* (src/agent/agent.py): the snapshot, its delivery and the polling loop.  *)
(*                                                                         *)
(* Text is modelled by what the code does with it:                         *)
(*   - a header value is a sequence of symbols (a word or one space);      *)
(*   - a JSON value is a tagged pair <<tag, value>>: "s" string, "i"       *)
(*     integer, "num" float, "n" null, "t" ISO-8601 timestamp, "fmt" an    *)
(*     f-string, "l" list (a sequence), "o" object (a function from keys); *)
(*   - a file is a sequence of lines, a line being <<"json", v>> (the text *)
(*     json.dumps(v) wrote), <<"blank", _>>, <<"corrupt", _>>, or          *)
(*     <<"part", v>> (the head of v's line, its newline not yet written);  *)
(*   - a client address is a sequence of characters, a file name is the    *)
(*     pair <<address, day>> standing for "<address>_<YYYY-MM-DD>.jsonl".  *)
(***************************************************************************)
EXTENDS Integers, Sequences, FiniteSets, TLC

VARIABLES
    fs,         \* DATA_DIR: file name -> [readable, lines], for the files that exist
    dirExists,  \* whether DATA_DIR exists
    now,        \* the server clock, in ticks
    req,        \* the last request received
    resp,       \* its response (status 0: not answered yet)
    agent,      \* the agent process: its position, its clock, the scheduler's job
    handlers,   \* the /collect handlers in flight in the collector's workers
    reader      \* the /query handler in flight

vars == <<fs, dirExists, now, req, resp, agent, handlers, reader>>
others == <<agent, handlers, reader>>

(***************************************************************************)
(* Bounds                                                                  *)
(***************************************************************************)
MaxTime == 3         \* the clock runs over the ticks 0..MaxTime
TicksPerDay == 2     \* clock ticks in one calendar day
MaxRecords == 2      \* lines the storage may hold before /collect is no longer sent
MaxHeaderLen == 5    \* symbols in an Authorization header value
MaxFileLines == 3    \* lines of a pre-existing partition file
MaxStoreDay == 1     \* pre-existing partition files are dated 0..MaxStoreDay

(***************************************************************************)
(* JSON values                                                             *)
(***************************************************************************)
JStr(s) == <<"s", s>>
JInt(s) == <<"i", s>>
JNum(s) == <<"num", s>>
JNull == <<"n", "null">>
JList(items) == <<"l", items>>
JObj(fields) == <<"o", fields>>
Tag(v) == v[1]
Val(v) == v[2]
EmptyObj == JObj([k \in {} |-> JNull])
Invalid == <<"invalid", "validation error">>

(***************************************************************************)
(* The pydantic models, main.py 13-35.  A validator returns the validated  *)
(* value in the form model_dump() gives it, or Invalid.  pydantic ignores  *)
(* undeclared fields (no model_config forbids them) and fills an absent    *)
(* optional field with its default None.                                   *)
(***************************************************************************)
TStr(v) == IF Tag(v) = "s" THEN v ELSE Invalid
TOptStr(v) == IF Tag(v) \in {"s", "n"} THEN v ELSE Invalid
TOptInt(v) == IF Tag(v) \in {"i", "n"} THEN v ELSE Invalid
\* float | None: an integer is accepted and becomes a float
TOptFloat(v) ==
    IF Tag(v) \in {"num", "n"} THEN v
    ELSE IF Tag(v) = "i" THEN JNum(Val(v))
    ELSE Invalid
\* float | str | None
TOptFloatOrStr(v) == IF Tag(v) = "s" THEN v ELSE TOptFloat(v)

CPUFields == {"physical_cores", "total_cores", "frequency", "usage_percent", "error"}

CPUFieldType(k, v) ==
    CASE k \in {"physical_cores", "total_cores"} -> TOptInt(v)
      [] k = "frequency" -> TOptFloatOrStr(v)
      [] k = "usage_percent" -> TOptFloat(v)
      [] OTHER -> TOptStr(v)

\* CPUInfo with undeclared fields forbidden (extra = "forbid")
CPUInfoForbidExtra(v) ==
    IF Tag(v) # "o" THEN Invalid
    ELSE LET o == Val(v)
             m == [k \in CPUFields |->
                      IF k \in DOMAIN o THEN CPUFieldType(k, o[k]) ELSE JNull]
         IN  IF (\E k \in CPUFields : m[k] = Invalid) \/ ~(DOMAIN o \subseteq CPUFields)
             THEN Invalid ELSE JObj(m)

\* CPUInfo dumped without the fields the request did not set (exclude_unset)
CPUInfoExcludeUnset(v) ==
    IF Tag(v) # "o" THEN Invalid
    ELSE LET o == Val(v)
             m == [k \in CPUFields \cap DOMAIN o |-> CPUFieldType(k, o[k])]
         IN  IF \E k \in DOMAIN m : m[k] = Invalid THEN Invalid ELSE JObj(m)

CPUInfo(v) ==
    IF Tag(v) # "o" THEN Invalid
    ELSE LET o == Val(v)
             m == [k \in CPUFields |->
                      IF k \in DOMAIN o THEN CPUFieldType(k, o[k]) ELSE JNull]
         IN  IF \E k \in CPUFields : m[k] = Invalid THEN Invalid ELSE JObj(m)

ProcessFields == {"pid", "name", "username"}

ProcessInfo(v) ==
    IF Tag(v) # "o" THEN Invalid
    ELSE LET o == Val(v)
             m == [k \in ProcessFields |->
                      IF k \in DOMAIN o
                      THEN (CASE k = "pid" -> (IF Tag(o[k]) = "i" THEN o[k] ELSE Invalid)
                              [] k = "name" -> TStr(o[k])
                              [] OTHER -> TOptStr(o[k]))
                      ELSE IF k = "username" THEN JNull ELSE Invalid]
         IN  IF \E k \in ProcessFields : m[k] = Invalid THEN Invalid ELSE JObj(m)

UserFields == {"user", "terminal"}

UserInfo(v) ==
    IF Tag(v) # "o" THEN Invalid
    ELSE LET o == Val(v)
             m == [k \in UserFields |->
                      IF k \in DOMAIN o
                      THEN (IF k = "user" THEN TStr(o[k]) ELSE TOptStr(o[k]))
                      ELSE IF k = "terminal" THEN JNull ELSE Invalid]
         IN  IF \E k \in UserFields : m[k] = Invalid THEN Invalid ELSE JObj(m)

\* ProcessInfo | dict (main.py 34): pydantic's smart union keeps the member that
\* matches the input exactly; a JSON object is exactly a dict, and building a
\* ProcessInfo from it is only a lax match, so an object passes as it is.
ProcessInfoOrDict(v) ==
    IF Tag(v) = "o" THEN v ELSE ProcessInfo(v)

\* list[ProcessInfo | dict]
ProcessList(v) ==
    IF Tag(v) # "l" THEN Invalid
    ELSE LET items == [i \in 1..Len(Val(v)) |-> ProcessInfoOrDict(Val(v)[i])]
         IN  IF \E i \in 1..Len(items) : items[i] = Invalid THEN Invalid
             ELSE JList(items)

\* list[UserInfo] | dict (main.py 35)
UserListOrDict(v) ==
    IF Tag(v) = "o" THEN v
    ELSE IF Tag(v) # "l" THEN Invalid
    ELSE LET items == [i \in 1..Len(Val(v)) |-> UserInfo(Val(v)[i])]
         IN  IF \E i \in 1..Len(items) : items[i] = Invalid THEN Invalid
             ELSE JList(items)

SystemFields == {"os_name", "os_version", "cpu_info", "running_processes", "logged_in_users"}

SystemFieldType(k, v) ==
    CASE k \in {"os_name", "os_version"} -> TStr(v)
      [] k = "cpu_info" -> CPUInfo(v)
      [] k = "running_processes" -> ProcessList(v)
      [] OTHER -> UserListOrDict(v)

\* SystemData(body).model_dump(), or Invalid when the body fails validation
SystemData(v) ==
    IF Tag(v) # "o" THEN Invalid
    ELSE LET o == Val(v)
             m == [k \in SystemFields |->
                      IF k \in DOMAIN o THEN SystemFieldType(k, o[k]) ELSE Invalid]
         IN  IF \E k \in SystemFields : m[k] = Invalid THEN Invalid ELSE JObj(m)

(***************************************************************************)
(* Strings                                                                 *)
(***************************************************************************)
\* str.startswith
StartsWith(s, prefix) ==
    Len(s) >= Len(prefix) /\ SubSeq(s, 1, Len(prefix)) = prefix

\* str.split(sep): every occurrence of sep separates two pieces, which may be empty
RECURSIVE Split(_, _)
Split(s, sep) ==
    IF \A i \in 1..Len(s) : s[i] # sep THEN <<s>>
    ELSE LET i == CHOOSE j \in 1..Len(s) :
                      s[j] = sep /\ \A l \in 1..(j - 1) : s[l] # sep
         IN  <<SubSeq(s, 1, i - 1)>> \o Split(SubSeq(s, i + 1, Len(s)), sep)

\* fnmatch.fnmatchcase with the wildcards * and ?
RECURSIVE fnmatch(_, _)
fnmatch(name, pat) ==
    IF pat = <<>> THEN name = <<>>
    ELSE IF Head(pat) = "*"
         THEN fnmatch(name, Tail(pat)) \/ (name # <<>> /\ fnmatch(Tail(name), pat))
    ELSE IF name = <<>> THEN FALSE
    ELSE (Head(pat) = "?" \/ Head(pat) = Head(name)) /\ fnmatch(Tail(name), Tail(pat))

\* the code point of a character, as str comparison orders them
CharRank(c) ==
    CASE c = "*" -> 42 [] c = "." -> 46 [] c = "1" -> 49 [] c = "2" -> 50
      [] c = "9" -> 57 [] c = "?" -> 63 [] OTHER -> 95

RECURSIVE StrLess(_, _)
StrLess(a, b) ==
    IF a = <<>> THEN b # <<>>
    ELSE IF b = <<>> THEN FALSE
    ELSE IF Head(a) = Head(b) THEN StrLess(Tail(a), Tail(b))
    ELSE CharRank(Head(a)) < CharRank(Head(b))

(***************************************************************************)
(* Responses                                                               *)
(***************************************************************************)
NoResponse == [status |-> 0, body |-> JNull]
HTTPException(status_code, detail) ==
    [status |-> status_code, body |-> JObj([detail |-> JStr(detail)])]
\* FastAPI's answer to a request whose parameters or body fail validation
RequestValidationError == HTTPException(422, "Unprocessable Entity")

(***************************************************************************)
(* verify_token, main.py 45-58                                             *)
(***************************************************************************)
API_TOKEN == <<"micompania_secret_token_12345">>

\* NoResponse when the dependency raises nothing
verify_token(authorization) ==
    IF ~StartsWith(authorization, <<"Bearer", " ">>)
    THEN HTTPException(401, "Formato de token invalido")
    ELSE LET token == Split(authorization, " ")[2]
         IN  IF token # API_TOKEN
             THEN HTTPException(401, "Token de autorizacion invalido")
             ELSE NoResponse

(***************************************************************************)
(* Storage                                                                 *)
(***************************************************************************)
\* datetime.now().strftime("%Y-%m-%d"): zero-padded dates order as their days do
strftime(t) == t \div TicksPerDay
\* datetime.now().isoformat()
isoformat(t) == <<"t", t>>
\* os.path.join(DATA_DIR, f"{client_ip}_{today_date}.jsonl")
Filename(client_ip, today_date) == <<client_ip, today_date>>
\* json.dumps(record) + "\n"
json_dumps(v) == <<"json", v>>
BlankLine == <<"blank", JNull>>
CorruptLine == <<"corrupt", JNull>>

\* AppendLine with the file opened in mode "w": what it held is lost
TruncatingWrite(store, filename, line) ==
    (filename :> [readable |-> TRUE, lines |-> <<line>>]) @@ store

\* AppendLine writing the new line in front of the others
PrependLine(store, filename, line) ==
    IF filename \in DOMAIN store
    THEN [store EXCEPT ![filename].lines = <<line>> \o @]
    ELSE (filename :> [readable |-> TRUE, lines |-> <<line>>]) @@ store

\* open(filename, "a").write(line): creates the file when it does not exist
AppendLine(store, filename, line) ==
    IF filename \in DOMAIN store
    THEN [store EXCEPT ![filename].lines = Append(@, line)]
    ELSE (filename :> [readable |-> TRUE, lines |-> <<line>>]) @@ store

\* the order of two paths as strings: the address up to its "_", then the date
PathLess(f, g) ==
    LET a == f[1] \o <<"_">>
        b == g[1] \o <<"_">>
    IN  IF a = b THEN f[2] < g[2] ELSE StrLess(a, b)

\* SortedReverse without reverse=True: the oldest file first
RECURSIVE SortedAscending(_)
SortedAscending(files) ==
    IF files = {} THEN <<>>
    ELSE LET low == CHOOSE f \in files : \A g \in files : g = f \/ PathLess(f, g)
         IN  <<low>> \o SortedAscending(files \ {low})

\* sorted(matching_files, reverse=True)
RECURSIVE SortedReverse(_)
SortedReverse(files) ==
    IF files = {} THEN <<>>
    ELSE LET top == CHOOSE f \in files : \A g \in files : g = f \/ PathLess(g, f)
         IN  <<top>> \o SortedReverse(files \ {top})

\* the body of collect_data, main.py 68-88
collect_data(store, client_ip, data, t1, t2) ==
    LET today_date == strftime(t1)
        filename == Filename(client_ip, today_date)
        record == JObj([server_timestamp |-> isoformat(t2), payload |-> data])
    IN  [fs |-> AppendLine(store, filename, json_dumps(record)),
         dirExists |-> TRUE,
         resp |-> [status |-> 200,
                   body |-> JObj([status |-> JStr("success"),
                                  message |-> <<"fmt", <<<<"Datos recibidos de ">>, client_ip>>>>])]]

Rejected(store, dir, response) == [fs |-> store, dirExists |-> dir, resp |-> response]

\* PostCollect with the token checked only after the handler has run
PostCollectLateAuth(store, dir, r, t1, t2) ==
    IF "Authorization" \notin DOMAIN r.headers
    THEN Rejected(store, dir, RequestValidationError)
    ELSE LET auth == verify_token(r.headers["Authorization"])
             data == SystemData(r.body)
         IN  IF data = Invalid THEN Rejected(store, dir, RequestValidationError)
             ELSE IF auth # NoResponse
                  THEN [collect_data(store, r.client, data, t1, t2) EXCEPT !.resp = auth]
             ELSE collect_data(store, r.client, data, t1, t2)

\* POST /collect, main.py 51 and 62-63: the required header, the dependency,
\* then the body; the handler runs only when all three pass
PostCollect(store, dir, r, t1, t2) ==
    IF "Authorization" \notin DOMAIN r.headers
    THEN Rejected(store, dir, RequestValidationError)
    ELSE LET auth == verify_token(r.headers["Authorization"])
             data == SystemData(r.body)
         IN  IF auth # NoResponse THEN Rejected(store, dir, auth)
             ELSE IF data = Invalid THEN Rejected(store, dir, RequestValidationError)
             ELSE collect_data(store, r.client, data, t1, t2)

\* the records one file adds to all_records, main.py 104-111: a line that does
\* not parse ends the file's loop, and what was appended before it stays
RECURSIVE ReadLines(_)
ReadLines(lines) ==
    IF lines = <<>> THEN <<>>
    ELSE IF Head(lines)[1] = "blank" THEN ReadLines(Tail(lines))
    ELSE IF Head(lines)[1] = "json" THEN <<Head(lines)[2]>> \o ReadLines(Tail(lines))
    ELSE <<>>

\* ReadFile giving up all of a file's records when one of its lines does not parse
ReadFileOrNothing(file) ==
    IF file.readable /\ \A i \in DOMAIN file.lines : file.lines[i][1] \in {"json", "blank"}
    THEN ReadLines(file.lines)
    ELSE <<>>

\* main.py 104-111 for one file: a file that cannot be opened adds nothing
ReadFile(file) == IF file.readable THEN ReadLines(file.lines) ELSE <<>>

RECURSIVE ReadAll(_, _)
ReadAll(store, files) ==
    IF files = <<>> THEN <<>>
    ELSE ReadFile(store[Head(files)]) \o ReadAll(store, Tail(files))

\* glob.glob(os.path.join(DATA_DIR, f"{ip_address}_*.jsonl"))
glob(store, dir, ip_address) ==
    IF dir THEN {f \in DOMAIN store : fnmatch(f[1], ip_address)} ELSE {}

\* query_data answering 404 also when the files it found yield no record
query_data_404_when_empty(store, dir, ip_address) ==
    LET matching_files == glob(store, dir, ip_address)
        all_records == ReadAll(store, SortedReverse(matching_files))
    IN  IF matching_files = {} \/ all_records = <<>>
        THEN HTTPException(404, "No se encontraron datos para la IP")
        ELSE [status |-> 200, body |-> JList(all_records)]

\* GET /query/{ip_address}, main.py 90-113
query_data(store, dir, ip_address) ==
    LET matching_files == glob(store, dir, ip_address)
    IN  IF matching_files = {}
        THEN HTTPException(404, "No se encontraron datos para la IP")
        ELSE [status |-> 200,
              body |-> JList(ReadAll(store, SortedReverse(matching_files)))]

\* GET /, main.py 115-118
read_root == [status |-> 200, body |-> JObj([message |-> JStr("API en linea")])]

(***************************************************************************)
(* Requests.  The snapshots are the ones get_system_info builds            *)
(* (agent.py 30-62), and variations of them.                               *)
(***************************************************************************)
WithField(obj, k, v) == JObj((k :> v) @@ Val(obj))
WithoutField(obj, k) == JObj([x \in DOMAIN Val(obj) \ {k} |-> Val(obj)[x]])

CpuMetrics ==
    JObj([physical_cores |-> JInt("4"), total_cores |-> JInt("8"),
          frequency |-> JNum("2400.0"), usage_percent |-> JNum("12.5")])
CpuError == JObj([error |-> JStr("cpu unavailable")])
CpuVariants ==
    {CpuMetrics, CpuError, EmptyObj,
     WithField(CpuMetrics, "error", JStr("partial")),
     WithField(CpuMetrics, "temperature", JNum("55.0")),
     WithField(CpuError, "physical_cores", JStr("four")),
     JStr("N/A")}

ProcessEntry == JObj([pid |-> JInt("1"), name |-> JStr("init"), username |-> JStr("root")])
ErrorMarker == JObj([error |-> JStr("No se pudo acceder")])
ProcessVariants ==
    {JList(<<>>), JList(<<ProcessEntry>>), JList(<<ErrorMarker>>),
     JList(<<WithField(ProcessEntry, "cmdline", JStr("/sbin/init"))>>),
     JList(<<JStr("init")>>),
     ErrorMarker}

UserEntry == JObj([user |-> JStr("root"), terminal |-> JStr("tty1")])
UserVariants ==
    {JList(<<>>), JList(<<UserEntry>>), ErrorMarker,
     JList(<<WithoutField(UserEntry, "terminal")>>),
     JList(<<WithField(UserEntry, "host", JStr("localhost"))>>),
     JList(<<WithoutField(UserEntry, "user")>>)}

Snapshot(cpu, processes, users) ==
    JObj([os_name |-> JStr("Linux"), os_version |-> JStr("5.15"), cpu_info |-> cpu,
          running_processes |-> processes, logged_in_users |-> users])

\* what the agent sends when every query works, and when every query fails
SnapshotOk == Snapshot(CpuMetrics, JList(<<ProcessEntry>>), JList(<<UserEntry>>))
SnapshotErrors == Snapshot(CpuError, JList(<<ErrorMarker>>), ErrorMarker)

TopVariants(b) ==
    {b, WithoutField(b, "os_name"), WithField(b, "hostname", JStr("host-1")),
     WithField(b, "os_name", JInt("7"))}

AllBodies ==
    UNION {TopVariants(Snapshot(c, p, u)) :
               c \in CpuVariants, p \in ProcessVariants, u \in UserVariants}

HeaderSymbols == {"Bearer", "bearer", " ", API_TOKEN[1], "x"}

GoodAuthorization == <<"Bearer", " ">> \o API_TOKEN

NoHeaders == [k \in {} |-> <<>>]
AuthHeader(h) == [Authorization |-> h]

\* the requests sent to /collect while the collector runs: <<headers, body>>
Requests ==
    {<<AuthHeader(GoodAuthorization), SnapshotOk>>,
     <<AuthHeader(GoodAuthorization), SnapshotErrors>>,
     <<AuthHeader(GoodAuthorization), WithoutField(SnapshotOk, "os_name")>>,
     <<NoHeaders, SnapshotOk>>,
     <<AuthHeader(<<"Bearer", " ", "x">>), SnapshotOk>>,
     <<AuthHeader(<<"Bearer", " ", "x">>), WithoutField(SnapshotOk, "os_name")>>,
     <<AuthHeader(API_TOKEN), SnapshotErrors>>}

Address1 == <<"1", ".", "1">>
Address2 == <<"1", ".", "2">>
Addresses == {Address1, Address2}
\* path segments sent to /query: the addresses, one with no data, two patterns
QueryStrings == Addresses \cup {<<"1", ".", "9">>, <<"*">>, <<"1", ".", "?">>}

Days == 0..(MaxTime \div TicksPerDay)

CollectRequest(client, headers, body) ==
    [op |-> "collect", client |-> client, headers |-> headers, body |-> body, q |-> <<>>]
QueryRequest(q) ==
    [op |-> "query", client |-> <<>>, headers |-> NoHeaders, body |-> JNull, q |-> q]
RootRequest ==
    [op |-> "root", client |-> <<>>, headers |-> NoHeaders, body |-> JNull, q |-> <<>>]
NoRequest ==
    [op |-> "none", client |-> <<>>, headers |-> NoHeaders, body |-> JNull, q |-> <<>>]

RECURSIVE SumLines(_, _)
SumLines(store, files) ==
    IF files = {} THEN 0
    ELSE LET f == CHOOSE x \in files : TRUE
         IN  Len(store[f].lines) + SumLines(store, files \ {f})
TotalLines(store) == SumLines(store, DOMAIN store)

EmptyStore == [f \in {} |-> [readable |-> TRUE, lines |-> <<>>]]

(***************************************************************************)
(* The processes that do not run while the collector is looked at alone    *)
(***************************************************************************)
AgentOff ==
    [pc |-> "off", at |-> 0, next_run |-> -1, caller |-> "none", cycle |-> 0,
     running |-> 0, system_data |-> JNull, gathered |-> 0, posts |-> 0,
     outcome |-> "none", prev |-> "none", armedAt |-> -1, began |-> -1, lastEnd |-> -1,
     overran |-> FALSE]
NoHandlers == <<>>
ReaderOff ==
    [pc |-> "off", q |-> <<>>, files |-> <<>>, all_records |-> <<>>,
     overlap |-> {}, before |-> NoResponse, torn |-> FALSE]
Alone == agent = AgentOff /\ handlers = NoHandlers /\ reader = ReaderOff

(***************************************************************************)
(* The collector serving requests one after another                        *)
(***************************************************************************)
Init ==
    /\ fs = EmptyStore
    /\ dirExists = FALSE
    /\ now = 0
    /\ req = NoRequest
    /\ resp = NoResponse
    /\ Alone

\* one POST /collect, handled whole.  The handler reads the clock twice (for
\* the file's date, then for the timestamp): the clock may tick in between.
Handle(r, t2) ==
    LET out == PostCollect(fs, dirExists, r, now, t2)
    IN  /\ TotalLines(out.fs) <= MaxRecords
        /\ fs' = out.fs
        /\ dirExists' = out.dirExists
        /\ resp' = out.resp
        /\ req' = r
        /\ now' = t2
        /\ UNCHANGED others

Collect ==
    \E client \in Addresses, r \in Requests,
       t2 \in {t \in {now, now + 1} : t <= MaxTime} :
        Handle(CollectRequest(client, r[1], r[2]), t2)

Query ==
    \E q \in QueryStrings :
        /\ req' = QueryRequest(q)
        /\ resp' = query_data(fs, dirExists, q)
        /\ UNCHANGED <<fs, dirExists, now, others>>

ReadRoot ==
    /\ req' = RootRequest
    /\ resp' = read_root
    /\ UNCHANGED <<fs, dirExists, now, others>>

Tick ==
    /\ now < MaxTime
    /\ now' = now + 1
    /\ UNCHANGED <<fs, dirExists, req, resp, others>>

Next == Collect \/ Query \/ ReadRoot \/ Tick

Spec == Init /\ [][Next]_vars

(***************************************************************************)
(* One request, drawn from a wide set, answered by the collector: by       *)
(* /collect over an empty storage, or by /query over a storage directory   *)
(* as earlier runs, torn writes or an operator may have left it.           *)
(***************************************************************************)
StoredRecord(t, payload) ==
    JObj([server_timestamp |-> isoformat(t), payload |-> payload])
Record1 == StoredRecord(0, SystemData(SnapshotOk))
Record2 == StoredRecord(1, SystemData(SnapshotErrors))

File(lines) == [readable |-> TRUE, lines |-> lines]
Unreadable == [readable |-> FALSE, lines |-> <<>>]
\* stands for "no such file" while a storage is put together
Absent == [readable |-> FALSE, lines |-> <<<<"absent", JNull>>>>]

LineAlphabet == {json_dumps(Record1), json_dumps(Record2), BlankLine, CorruptLine}
AnyFiles ==
    {File(l) : l \in UNION {[1..n -> LineAlphabet] : n \in 0..MaxFileLines}}
        \cup {Unreadable, Absent}
PlainFiles ==
    {File(<<>>), File(<<json_dumps(Record1)>>),
     File(<<json_dumps(Record2), json_dumps(Record1)>>), Absent}

Store(files) ==
    [f \in {g \in DOMAIN files : files[g] # Absent} |-> files[f]]

StoreDays == 0..MaxStoreDay

\* a header value as the application receives it: HTTP strips the white space
\* around it
Stripped(h) == IF Len(h) = 0 THEN TRUE ELSE h[1] # " " /\ h[Len(h)] # " "

InitCollect ==
    /\ fs = EmptyStore
    /\ dirExists = FALSE
    /\ now \in {0, TicksPerDay - 1}
    /\ resp = NoResponse
    /\ Alone
    /\ \/ \E n \in 0..MaxHeaderLen :
              \E h \in [1..n -> HeaderSymbols],
                 b \in {SnapshotOk, WithoutField(SnapshotOk, "os_name")} :
                  /\ Stripped(h)
                  /\ req = CollectRequest(Address1, AuthHeader(h), b)
       \/ \E h \in {AuthHeader(GoodAuthorization), NoHeaders}, b \in AllBodies :
              req = CollectRequest(Address1, h, b)

\* Address1 holds any file for one day and plain ones for the others; Address2
\* holds at most one record
InitQuery ==
    /\ \E d \in StoreDays :
         \E any \in AnyFiles, plain \in [StoreDays \ {d} -> PlainFiles],
            other \in {File(<<json_dumps(Record2)>>), Absent} :
           fs = Store([f \in Addresses \X StoreDays |->
                          IF f[1] = Address2
                          THEN (IF f[2] = 0 THEN other ELSE Absent)
                          ELSE IF f[2] = d THEN any ELSE plain[f[2]]])
    /\ dirExists \in (IF fs = EmptyStore THEN BOOLEAN ELSE {TRUE})
    /\ now = 0
    /\ resp = NoResponse
    /\ Alone
    /\ \E q \in QueryStrings : req = QueryRequest(q)

AnswerCollect ==
    /\ req.op = "collect"
    /\ resp = NoResponse
    /\ \E t2 \in {t \in {now, now + 1} : t <= MaxTime} : Handle(req, t2)

AnswerQuery ==
    /\ req.op = "query"
    /\ resp = NoResponse
    /\ resp' = query_data(fs, dirExists, req.q)
    /\ UNCHANGED <<fs, dirExists, now, req, others>>

NextRequest == AnswerCollect \/ AnswerQuery

SpecRequest == (InitCollect \/ InitQuery) /\ [][NextRequest]_vars

(***************************************************************************)
(* The sampling agent, agent.py.  Its clock counts the ticks of            *)
(* time.sleep(1); the interval is scaled down to a few ticks.              *)
(***************************************************************************)
COLLECTION_INTERVAL_MINUTES == 3   \* the interval, in ticks
MaxGather == 2       \* ticks get_system_info may take
MaxSend == 2         \* ticks send_data_to_api may take (the timeout bounds it)
MaxAgentTime == 12   \* the agent is followed over the ticks 0..MaxAgentTime

\* what the three OS queries of get_system_info may do: answer, or raise.
\* "Exception" is any exception; "AccessDenied" stands for the three psutil
\* exceptions line 46 names; "OSError" for any exception that is none of them
CpuOutcomes == {"ok", "no_freq", "Exception"}
ProcessOutcomes == {"ok", "AccessDenied", "OSError"}
UserOutcomes == {"ok", "Exception"}

Raised(e) == <<"raise", e>>

\* get_system_info, agent.py 22-65: the snapshot, or the exception that escapes
get_system_info(cpu, procs, users) ==
    LET cpu_info == IF cpu = "ok" THEN CpuMetrics
                    ELSE IF cpu = "no_freq"
                         THEN WithField(CpuMetrics, "frequency", JStr("N/A"))
                    ELSE CpuError
        processes == IF procs = "ok" THEN JList(<<ProcessEntry>>)
                     ELSE JList(<<ErrorMarker>>)
        active_users == IF users = "ok" THEN JList(<<UserEntry>>) ELSE ErrorMarker
    IN  IF procs = "OSError" THEN Raised(procs)
        ELSE Snapshot(cpu_info, processes, active_users)

\* what may become of the POST: a 2xx answer, no connection, no answer within
\* the timeout, an answer with status 4xx or 5xx, an answer that is not JSON
NetOutcomes == {"ok", "ConnectionError", "Timeout", "HTTPError", "ValueError"}

\* send_data_to_api posting a second time when the first POST failed
send_data_with_retry(data, net) ==
    [posts |-> IF net = "ok" THEN 1 ELSE 2,
     outcome |-> IF net = "ok" THEN "sent" ELSE "failed", raised |-> FALSE]

\* send_data_to_api, agent.py 67-88: one requests.post; every exception is
\* caught by one of the two handlers, and the function returns None
send_data_to_api(data, net) ==
    [posts |-> 1, outcome |-> IF net = "ok" THEN "sent" ELSE "failed", raised |-> FALSE]

\* every_minutes_do making the job due at once
due_at_once(t) == t

\* schedule.every(n).minutes.do(job), agent.py 105: the job is first due one
\* interval after it is registered
every_minutes_do(t) == t + COLLECTION_INTERVAL_MINUTES

\* Job.should_run, used by schedule.run_pending(), agent.py 109
should_run(t, next_run) == t >= next_run

\* schedule_next_run re-arming at a fixed rate, from the time the job was due
schedule_fixed_rate(t, next_run) == next_run + COLLECTION_INTERVAL_MINUTES

\* Job.run, called by schedule.run_pending(), agent.py 109: the job is re-armed
\* when job() has returned, one interval from then
schedule_next_run(t, next_run) == t + COLLECTION_INTERVAL_MINUTES

AgentInit ==
    /\ agent = [AgentOff EXCEPT !.pc = "startup"]
    /\ fs = EmptyStore
    /\ dirExists = FALSE
    /\ now = 0
    /\ req = NoRequest
    /\ resp = NoResponse
    /\ handlers = NoHandlers
    /\ reader = ReaderOff

AgentStep(a) ==
    /\ agent' = a
    /\ UNCHANGED <<fs, dirExists, now, req, resp, handlers, reader>>

\* job() is entered: system_data = get_system_info() comes first
EnterJob(caller) ==
    [agent EXCEPT !.pc = "get_system_info", !.caller = caller,
                  !.cycle = @ + 1, !.running = @ + 1, !.posts = 0,
                  !.outcome = "none", !.prev = agent.outcome, !.began = agent.at]

\* agent.py 102: job() is called once before anything is scheduled
JobAtStartup ==
    /\ agent.pc = "startup"
    /\ AgentStep(EnterJob("main"))

\* agent.py 92: an exception get_system_info lets escape is caught nowhere, in
\* job, in schedule.run_pending or in the main loop: the process ends
Gather ==
    /\ agent.pc = "get_system_info"
    /\ \E cpu \in CpuOutcomes, procs \in ProcessOutcomes, users \in UserOutcomes,
          d \in 0..MaxGather :
          LET system_data == get_system_info(cpu, procs, users)
          IN  /\ agent.at + d <= MaxAgentTime
              /\ AgentStep(IF system_data[1] = "raise"
                           THEN [agent EXCEPT !.pc = "crashed", !.at = @ + d]
                           ELSE [agent EXCEPT !.pc = "send_data_to_api", !.at = @ + d,
                                              !.system_data = system_data,
                                              !.gathered = agent.cycle])

\* agent.py 93, and the return of job(): to line 105 at startup, to Job.run
\* (which re-arms the job) when schedule.run_pending() called it
Send ==
    /\ agent.pc = "send_data_to_api"
    /\ \E net \in NetOutcomes, d \in 0..MaxSend :
          LET r == send_data_to_api(agent.system_data, net)
              t == agent.at + d
              a == [agent EXCEPT !.at = t, !.posts = @ + r.posts, !.outcome = r.outcome,
                                 !.running = @ - 1, !.lastEnd = t,
                                 !.overran = t - agent.began > COLLECTION_INTERVAL_MINUTES]
          IN  /\ t <= MaxAgentTime
              /\ AgentStep(IF r.raised THEN [a EXCEPT !.pc = "crashed"]
                           ELSE IF agent.caller = "main" THEN [a EXCEPT !.pc = "schedule"]
                           ELSE [a EXCEPT !.pc = "sleep", !.armedAt = t,
                                          !.next_run = schedule_next_run(t, agent.next_run)])

\* agent.py 105
Schedule ==
    /\ agent.pc = "schedule"
    /\ AgentStep([agent EXCEPT !.pc = "run_pending", !.armedAt = agent.at,
                               !.next_run = every_minutes_do(agent.at)])

\* agent.py 109: schedule.run_pending() runs the job if it is due
RunPending ==
    /\ agent.pc = "run_pending"
    /\ AgentStep(IF should_run(agent.at, agent.next_run)
                 THEN EnterJob("run_pending")
                 ELSE [agent EXCEPT !.pc = "sleep"])

\* agent.py 110: time.sleep(1)
Sleep ==
    /\ agent.pc = "sleep"
    /\ agent.at < MaxAgentTime
    /\ AgentStep([agent EXCEPT !.pc = "run_pending", !.at = @ + 1])

AgentNext == JobAtStartup \/ Gather \/ Send \/ Schedule \/ RunPending \/ Sleep

SpecAgent == AgentInit /\ [][AgentNext]_vars

\* the agent process keeps running: nothing stops it but an exception
SpecAgentLive == SpecAgent /\ WF_vars(AgentNext)

(***************************************************************************)
(* The collector serving requests in parallel: /collect handlers in        *)
(* several worker processes and one /query handler, each taking the steps  *)
(* of its code one at a time.  No lock orders them (main.py 83-86), and    *)
(* whether the line of one write call reaches the file in one piece is     *)
(* left to the file system: the model allows both.                         *)
(***************************************************************************)
HandlerIds == {1, 2}

HandlerIdle ==
    [pc |-> "idle", client |-> <<>>, data |-> JNull, filename |-> <<>>,
     record |-> JNull, during |-> FALSE]

\* each worker sends the snapshot its agent gathered
HandlerData(h) == IF h = 1 THEN SystemData(SnapshotOk) ELSE SystemData(SnapshotErrors)

\* a record stored before the handlers start
Record0 ==
    StoredRecord(0, SystemData(Snapshot(CpuError, JList(<<ProcessEntry>>),
                                        JList(<<UserEntry>>))))

ReaderActive == reader.pc \in {"received", "reading"}
HandlerActive(h) == handlers[h].pc \notin {"idle", "done"}

\* open(filename, "a"), main.py 85: creates the file when it does not exist
open_append(store, filename) ==
    IF filename \in DOMAIN store THEN store
    ELSE (filename :> File(<<>>)) @@ store

\* f.write(json.dumps(record) + "\n") reaching the end of the file, main.py 86:
\* the whole line, or its head and later its tail.  <<"part", r>> is the head
\* of r's line, with no newline yet; bytes written after an unfinished line
\* run into it, and the line they end is not what either writer wrote.
write(store, filename, piece, record) ==
    LET lines == store[filename].lines
        n == Len(lines)
        unfinished == n > 0 /\ lines[n][1] = "part"
        new == IF piece = "whole"
               THEN (IF unfinished THEN [lines EXCEPT ![n] = CorruptLine]
                     ELSE Append(lines, json_dumps(record)))
               ELSE IF piece = "head"
               THEN (IF unfinished THEN [lines EXCEPT ![n] = <<"part", JNull>>]
                     ELSE Append(lines, <<"part", record>>))
               ELSE (IF unfinished
                     THEN [lines EXCEPT ![n] = IF lines[n] = <<"part", record>>
                                               THEN json_dumps(record)
                                               ELSE CorruptLine]
                     ELSE Append(lines, CorruptLine))
    IN  [store EXCEPT ![filename].lines = new]

ConcInit ==
    /\ fs \in {EmptyStore, Store([f \in {<<Address1, 0>>} |-> File(<<json_dumps(Record0)>>)])}
    /\ dirExists = (fs # EmptyStore)
    /\ now = 0
    /\ req = NoRequest
    /\ resp = NoResponse
    /\ agent = AgentOff
    /\ handlers = [h \in HandlerIds |-> HandlerIdle]
    /\ reader = ReaderOff

HandlerStep(h, new) ==
    handlers' = [handlers EXCEPT ![h] = [new EXCEPT !.during = @ \/ ReaderActive]]

\* main.py 62-63: the token and the body have passed, the handler is entered
Receive(h) ==
    /\ handlers[h].pc = "idle"
    /\ \E client \in Addresses :
          HandlerStep(h, [handlers[h] EXCEPT !.pc = "received", !.client = client,
                                             !.data = HandlerData(h)])
    /\ UNCHANGED <<fs, dirExists, now, req, resp, agent, reader>>

\* main.py 68-75: the first clock reading, the file name, os.makedirs
TakeDate(h) ==
    /\ handlers[h].pc = "received"
    /\ HandlerStep(h, [handlers[h] EXCEPT !.pc = "dated",
                          !.filename = Filename(handlers[h].client, strftime(now))])
    /\ dirExists' = TRUE
    /\ UNCHANGED <<fs, now, req, resp, agent, reader>>

\* main.py 78-81: the second clock reading
TakeTimestamp(h) ==
    /\ handlers[h].pc = "dated"
    /\ HandlerStep(h, [handlers[h] EXCEPT !.pc = "stamped",
                          !.record = JObj([server_timestamp |-> isoformat(now),
                                           payload |-> handlers[h].data])])
    /\ UNCHANGED <<fs, dirExists, now, req, resp, agent, reader>>

\* main.py 85
OpenFile(h) ==
    /\ handlers[h].pc = "stamped"
    /\ HandlerStep(h, [handlers[h] EXCEPT !.pc = "opened"])
    /\ fs' = open_append(fs, handlers[h].filename)
    /\ UNCHANGED <<dirExists, now, req, resp, agent, reader>>

\* main.py 86: the line is written when the file is closed, whole or head first
WriteLine(h) ==
    /\ handlers[h].pc = "opened"
    /\ \E piece \in {"whole", "head"} :
          /\ HandlerStep(h, [handlers[h] EXCEPT
                                !.pc = IF piece = "whole" THEN "done" ELSE "partial"])
          /\ fs' = write(fs, handlers[h].filename, piece, handlers[h].record)
    /\ UNCHANGED <<dirExists, now, req, resp, agent, reader>>

\* main.py 86-88: the rest of the line, and the answer 200
WriteRest(h) ==
    /\ handlers[h].pc = "partial"
    /\ HandlerStep(h, [handlers[h] EXCEPT !.pc = "done"])
    /\ fs' = write(fs, handlers[h].filename, "tail", handlers[h].record)
    /\ UNCHANGED <<dirExists, now, req, resp, agent, reader>>

\* main.py 90-91: GET /query/{ip_address} arrives
ReceiveQuery ==
    /\ reader.pc = "off"
    /\ reader' = [reader EXCEPT !.pc = "received", !.q = Address1,
                                !.overlap = {h \in HandlerIds : HandlerActive(h)},
                                !.before = query_data(fs, dirExists, Address1)]
    /\ req' = QueryRequest(Address1)
    /\ UNCHANGED <<fs, dirExists, now, resp, agent, handlers>>

\* main.py 96-103
GlobFiles ==
    /\ reader.pc = "received"
    /\ LET matching_files == glob(fs, dirExists, reader.q)
       IN  IF matching_files = {}
           THEN /\ reader' = [reader EXCEPT !.pc = "done"]
                /\ resp' = HTTPException(404, "No se encontraron datos para la IP")
           ELSE /\ reader' = [reader EXCEPT !.pc = "reading",
                                            !.files = SortedReverse(matching_files)]
                /\ resp' = resp
    /\ UNCHANGED <<fs, dirExists, now, req, agent, handlers>>

\* json.loads was handed the head of a line that is still being written
ParsesPartial(file) ==
    \E i \in DOMAIN file.lines :
        /\ file.lines[i][1] = "part"
        /\ \A j \in 1..(i - 1) : file.lines[j][1] \in {"json", "blank"}

\* main.py 104-113: one file is read; after the last one the list is returned
ReadNext ==
    /\ reader.pc = "reading"
    /\ LET file == fs[Head(reader.files)]
           all_records == reader.all_records \o ReadFile(file)
           rest == Tail(reader.files)
       IN  /\ reader' = [reader EXCEPT !.files = rest, !.all_records = all_records,
                                       !.torn = @ \/ ParsesPartial(file),
                                       !.pc = IF rest = <<>> THEN "done" ELSE "reading"]
           /\ resp' = IF rest = <<>> THEN [status |-> 200, body |-> JList(all_records)]
                      ELSE resp
    /\ UNCHANGED <<fs, dirExists, now, req, agent, handlers>>

ConcNext ==
    \/ \E h \in HandlerIds :
          \/ Receive(h) \/ TakeDate(h) \/ TakeTimestamp(h)
          \/ OpenFile(h) \/ WriteLine(h) \/ WriteRest(h)
    \/ ReceiveQuery \/ GlobFiles \/ ReadNext
    \/ Tick

SpecConcurrent == ConcInit /\ [][ConcNext]_vars

(***************************************************************************)
(* Properties                                                              *)
(***************************************************************************)
Answered == resp # NoResponse
HasAuthorization == "Authorization" \in DOMAIN req.headers

\* C1: a POST /collect that is rejected, with 401 or with 422, leaves the
\* storage as it was: no file and no directory is created, no line is added.
C1_RejectedCollectWritesNothing ==
    [][(req'.op = "collect" /\ resp'.status \in {401, 422})
          => (fs' = fs /\ dirExists' = dirExists)]_vars

\* a request with a valid token and an invalid body was rejected while the
\* storage held records
C1_Witness ==
    /\ req.op = "collect"
    /\ resp.status = 422
    /\ HasAuthorization
    /\ verify_token(req.headers["Authorization"]) = NoResponse
    /\ TotalLines(fs) > 0

\* C2: a header value passes authentication if and only if it is "Bearer "
\* followed by exactly the secret token; every other value is answered 401.
C2_AuthIffExactBearerToken ==
    (req.op = "collect" /\ Answered /\ HasAuthorization)
        => ((resp.status # 401)
              <=> (req.headers["Authorization"] = <<"Bearer", " ">> \o API_TOKEN))

\* C3: a POST /collect without an Authorization header is answered 401.
C3_MissingHeaderIs401 ==
    (req.op = "collect" /\ Answered /\ ~HasAuthorization) => resp.status = 401

IsPrefix(a, b) == Len(a) <= Len(b) /\ SubSeq(b, 1, Len(a)) = a
LinesOf(store, f) == IF f \in DOMAIN store THEN store[f].lines ELSE <<>>
IsRecordLine(line) ==
    /\ line[1] = "json"
    /\ Tag(line[2]) = "o"
    /\ DOMAIN Val(line[2]) = {"server_timestamp", "payload"}

\* C5: each successful POST /collect adds exactly one line, a complete record
\* {server_timestamp, payload}, at the end of the file of the client's address
\* and the day of the call, and changes no other file; so n successful calls
\* from one address on one day leave n lines in that file, in call order.
C5_SuccessfulCollectAppendsOneLine ==
    [][(req'.op = "collect" /\ resp'.status = 200 /\ Handle(req', now'))
          => LET f == Filename(req'.client, strftime(now))
             IN  /\ f \in DOMAIN fs'
                 /\ DOMAIN fs' = DOMAIN fs \cup {f}
                 /\ fs'[f].lines = LinesOf(fs, f) \o <<fs'[f].lines[Len(fs'[f].lines)]>>
                 /\ IsRecordLine(fs'[f].lines[Len(fs'[f].lines)])
                 /\ \A g \in DOMAIN fs \ {f} : fs'[g] = fs[g]]_vars

\* a second successful call of the day has reached the same file, and the two
\* records are different
C5_Witness ==
    /\ req.op = "collect"
    /\ resp.status = 200
    /\ \E f \in DOMAIN fs :
          /\ f[1] = req.client
          /\ Len(fs[f].lines) = 2
          /\ fs[f].lines[1] # fs[f].lines[2]

\* C6: storage is append-only: over every step of the collector each file that
\* exists still exists afterwards, and what it held is a prefix of what it holds.
C6_AppendOnly ==
    [][\A f \in DOMAIN fs :
          f \in DOMAIN fs' /\ IsPrefix(fs[f].lines, fs'[f].lines)]_vars

\* a query and a later collect have both run over a storage that held records
C6_Witness ==
    /\ req.op = "query"
    /\ resp.status = 200
    /\ Cardinality(DOMAIN fs) = 2
    /\ TotalLines(fs) = 2

Keys(v) == IF Tag(v) = "o" THEN DOMAIN Val(v) ELSE {}
Items(v) == IF Tag(v) = "l" THEN Val(v) ELSE <<>>
Field(v, k) == IF k \in Keys(v) THEN Val(v)[k] ELSE JNull
GoodToken == HasAuthorization /\ req.headers["Authorization"] = GoodAuthorization

\* the body holds a field the SystemSnapshot shape does not declare
HasUndeclaredField(b) ==
    \/ ~(Keys(b) \subseteq SystemFields)
    \/ ~(Keys(Field(b, "cpu_info")) \subseteq CPUFields)
    \/ \E i \in DOMAIN Items(Field(b, "running_processes")) :
          LET ks == Keys(Items(Field(b, "running_processes"))[i])
          IN  ~(ks \subseteq ProcessFields) /\ ks # {"error"}
    \/ \E i \in DOMAIN Items(Field(b, "logged_in_users")) :
          ~(Keys(Items(Field(b, "logged_in_users"))[i]) \subseteq UserFields)

\* cpu_info has one of the two shapes: metrics, or an error string
CpuHasOneShape(b) ==
    LET ks == Keys(Field(b, "cpu_info"))
    IN  \/ (ks # {} /\ ks \subseteq CPUFields \ {"error"})
        \/ ks = {"error"}

\* the tags a declared cpu_info field admits
CpuAdmits(k) ==
    CASE k \in {"physical_cores", "total_cores"} -> {"i", "n"}
      [] k = "frequency" -> {"num", "i", "s", "n"}
      [] k = "usage_percent" -> {"num", "i", "n"}
      [] OTHER -> {"s", "n"}

\* every required field is there and every declared field that is there holds
\* a value of its declared type
WellTyped(b) ==
    /\ SystemFields \subseteq Keys(b)
    /\ Tag(Field(b, "os_name")) = "s"
    /\ Tag(Field(b, "os_version")) = "s"
    /\ LET cpu == Field(b, "cpu_info")
       IN  /\ Tag(cpu) = "o"
           /\ \A k \in Keys(cpu) \cap CPUFields : Tag(Field(cpu, k)) \in CpuAdmits(k)
    /\ LET ps == Field(b, "running_processes")
       IN  Tag(ps) = "l" /\ \A i \in DOMAIN Items(ps) : Tag(Items(ps)[i]) = "o"
    /\ LET us == Field(b, "logged_in_users")
       IN  \/ Tag(us) = "o"
           \/ /\ Tag(us) = "l"
              /\ \A i \in DOMAIN Items(us) :
                    LET u == Items(us)[i]
                    IN  /\ Tag(u) = "o"
                        /\ "user" \in Keys(u)
                        /\ Tag(Field(u, "user")) = "s"
                        /\ Tag(Field(u, "terminal")) \in {"s", "n"}

OnlyPayload ==
    LET r == query_data(fs, dirExists, req.client)
    IN  IF r.status = 200 /\ Len(Items(r.body)) = 1
        THEN Field(Items(r.body)[1], "payload")
        ELSE JNull

\* C7 as stated: after one successful POST /collect from an address with no
\* files, GET /query/{address} returns one record whose payload equals the
\* submitted snapshot.
C7_RoundTripEqualsSubmitted ==
    (req.op = "collect" /\ resp.status = 200) => OnlyPayload = req.body

\* p is the snapshot b as the schema normalises it: the declared fields b
\* carries with their values, null for the optional cpu_info and user-entry
\* fields b omits, and no undeclared field at top level, in cpu_info or in a
\* user entry
SchemaImage(b, p) ==
    /\ Keys(p) = SystemFields
    /\ \A k \in {"os_name", "os_version", "running_processes"} : Field(p, k) = Field(b, k)
    /\ LET pc == Field(p, "cpu_info")
           bc == Field(b, "cpu_info")
       IN  /\ Keys(pc) = CPUFields
           /\ \A k \in CPUFields : Field(pc, k) = Field(bc, k)
    /\ LET pu == Field(p, "logged_in_users")
           bu == Field(b, "logged_in_users")
       IN  IF Tag(bu) = "o" THEN pu = bu
           ELSE /\ Tag(pu) = "l"
                /\ Len(Items(pu)) = Len(Items(bu))
                /\ \A i \in DOMAIN Items(pu) :
                      /\ Keys(Items(pu)[i]) = UserFields
                      /\ \A k \in UserFields :
                            Field(Items(pu)[i], k) = Field(Items(bu)[i], k)

\* C7 amended: the one record's payload is the submitted snapshot as the
\* schema normalises it, which equals the snapshot only when the snapshot
\* already has that form.
C7_RoundTripSchemaImage ==
    (req.op = "collect" /\ resp.status = 200)
        => (Tag(OnlyPayload) = "o" /\ SchemaImage(req.body, OnlyPayload))

\* the agent's snapshot of a host where every query failed was stored and is
\* returned with a payload that differs from it
C7_Witness ==
    /\ req.op = "collect"
    /\ resp.status = 200
    /\ req.body = SnapshotErrors
    /\ Tag(OnlyPayload) = "o"
    /\ OnlyPayload # req.body

\* the path segment is a plain address: it holds no wildcard
LiteralQuery(q) == \A i \in DOMAIN q : q[i] \notin {"*", "?"}
FilesOf(address) == {f \in DOMAIN fs : f[1] = address}
QueryAnswered == req.op = "query" /\ Answered /\ LiteralQuery(req.q)

\* C8: GET /query/{address} is answered 404 exactly when no partition file of
\* the address exists, and 200 otherwise; when every file of the address is
\* empty or unreadable the answer is 200 with an empty sequence.
C8_NotFoundIffNoFile ==
    QueryAnswered
        => /\ resp.status \in {200, 404}
           /\ (resp.status = 404) <=> (FilesOf(req.q) = {})
           /\ (/\ FilesOf(req.q) # {}
               /\ \A f \in FilesOf(req.q) : ~fs[f].readable \/ fs[f].lines = <<>>)
                 => resp.body = JList(<<>>)

\* an address with an unreadable file and an empty one was queried
C8_Witness ==
    /\ QueryAnswered
    /\ resp = [status |-> 200, body |-> JList(<<>>)]
    /\ \E f, g \in FilesOf(req.q) :
          /\ ~fs[f].readable
          /\ fs[g].readable /\ fs[g].lines = <<>>

\* the records a file holds, in line order
RecordsIn(f) ==
    IF f \in DOMAIN fs /\ fs[f].readable
    THEN LET ls == SelectSeq(fs[f].lines, LAMBDA l : l[1] = "json")
         IN  [i \in 1..Len(ls) |-> ls[i][2]]
    ELSE <<>>

\* the records of the address's files dated d or later, latest date first
RECURSIVE RecordsFromDay(_, _)
RecordsFromDay(address, d) ==
    IF d > MaxStoreDay THEN <<>>
    ELSE RecordsFromDay(address, d + 1) \o RecordsIn(<<address, d>>)

Intact(f) == fs[f].readable /\ \A i \in DOMAIN fs[f].lines : fs[f].lines[i][1] # "corrupt"

\* C9: for an address whose files all parse, GET /query/{address} returns the
\* files' records file by file in descending date order, each file's records
\* in the order of its lines.
C9_LatestFileFirst ==
    (QueryAnswered /\ FilesOf(req.q) # {} /\ \A f \in FilesOf(req.q) : Intact(f))
        => resp = [status |-> 200, body |-> JList(RecordsFromDay(req.q, 0))]

\* two files of the address hold records, one of them two different records
C9_Witness ==
    /\ QueryAnswered
    /\ resp.status = 200
    /\ \A f \in FilesOf(req.q) : Intact(f)
    /\ \E f, g \in FilesOf(req.q) :
          /\ f[2] < g[2]
          /\ Len(RecordsIn(f)) >= 2 /\ RecordsIn(f)[1] # RecordsIn(f)[2]
          /\ Len(RecordsIn(g)) >= 1 /\ RecordsIn(g)[1] # RecordsIn(f)[1]

CorruptLines(f) == {i \in DOMAIN fs[f].lines : fs[f].lines[i][1] = "corrupt"}

\* C10: when one line of one file of the address does not parse, the query
\* succeeds and returns every record of every file of the address: those before
\* and after the bad line, and those of the other files.
C10_OtherLinesSurviveBadLine ==
    (/\ QueryAnswered
     /\ \A f \in FilesOf(req.q) : fs[f].readable
     /\ \E f \in FilesOf(req.q) :
           /\ Cardinality(CorruptLines(f)) = 1
           /\ \A g \in FilesOf(req.q) \ {f} : CorruptLines(g) = {})
        => resp = [status |-> 200, body |-> JList(RecordsFromDay(req.q, 0))]

\* a cycle is dispatched: job() is entered
CycleStarts == agent'.cycle # agent.cycle

\* C11: the agent's cycles never overlap.  At most one cycle is in progress; a
\* cycle is dispatched only when the one before it has returned; and a cycle
\* the scheduler dispatches starts no sooner than one interval after the
\* previous cycle ended, so a cycle that overran its interval delays the next
\* one and is not made up for by an extra run.
C11_CyclesNeverOverlap ==
    /\ [](agent.running <= 1)
    /\ [][CycleStarts =>
            /\ agent.running = 0 /\ agent'.running = 1
            /\ agent'.cycle = agent.cycle + 1
            /\ agent.cycle >= 1 =>
                  agent.at >= agent.lastEnd + COLLECTION_INTERVAL_MINUTES]_vars

\* a scheduled cycle took longer than the interval, and the next one is running
C11_Witness ==
    /\ agent.pc = "get_system_info"
    /\ agent.caller = "run_pending"
    /\ agent.cycle >= 3
    /\ agent.overran

AgentCycles == 1..(MaxAgentTime + 1)

\* send_data_to_api has returned from a POST that failed
DeliveryFails == agent.pc = "send_data_to_api" /\ agent'.outcome = "failed"

\* C12: a delivery failure is swallowed inside its cycle.  A cycle makes one
\* POST and no more, of the snapshot gathered in that same cycle; the step in
\* which the POST fails takes the agent back to its loop; and, while the
\* observed time lasts, a failed cycle is followed by the next cycle, which
\* gets to posting its own fresh snapshot unless get_system_info raises.
C12_FailureSwallowed ==
    /\ [](agent.posts <= 1)
    /\ [][agent'.posts # agent.posts /\ agent'.posts > 0
            => agent.pc = "send_data_to_api" /\ agent.gathered = agent.cycle]_vars
    /\ [][DeliveryFails
            => agent'.posts = 1 /\ agent'.pc \in {"schedule", "sleep"}]_vars
    /\ \A c \in AgentCycles :
          (/\ agent.cycle = c /\ agent.outcome = "failed"
           /\ agent.lastEnd + COLLECTION_INTERVAL_MINUTES <= MaxAgentTime)
             ~> (/\ agent.cycle = c + 1
                 /\ \/ agent.pc = "crashed"
                    \/ agent.posts = 1 /\ agent.gathered = c + 1)

\* the cycle after one whose delivery failed has posted its own snapshot
C12_Witness ==
    /\ agent.prev = "failed"
    /\ agent.cycle >= 2
    /\ agent.posts = 1 /\ agent.outcome = "sent"
    /\ agent.gathered = agent.cycle
    /\ agent.pc = "sleep"

\* C13: whatever the three OS queries do, get_system_info returns a snapshot
\* that passes the collector's schema: no exception escapes it, and the agent
\* process is never ended by one.
C13_NoExceptionEscapes ==
    /\ agent.pc # "crashed"
    /\ agent.pc = "send_data_to_api" => SystemData(agent.system_data) # Invalid

\* the records of the address's files dated d or later that hold no unparseable
\* line, latest date first
RECURSIVE IntactRecordsFromDay(_, _)
IntactRecordsFromDay(address, d) ==
    IF d > MaxStoreDay THEN <<>>
    ELSE IntactRecordsFromDay(address, d + 1)
            \o (IF <<address, d>> \in DOMAIN fs /\ Intact(<<address, d>>)
                THEN RecordsIn(<<address, d>>) ELSE <<>>)

\* C14: GET /query/{address} skips a file that holds an unparseable line in its
\* entirety: the query succeeds and returns the records of the address's other
\* files and none of that file's, those before the bad line included.
C14_CorruptFileSkippedWhole ==
    (QueryAnswered /\ \E f \in FilesOf(req.q) : fs[f].readable /\ CorruptLines(f) # {})
        => resp = [status |-> 200, body |-> JList(IntactRecordsFromDay(req.q, 0))]

\* C15: GET /query/{address} returns only records of the files whose address
\* part is the queried path segment itself, whatever the segment is, a glob
\* pattern included: every record of the answer is a record of such a file.
C15_OnlyExactAddress ==
    (req.op = "query" /\ resp.status = 200)
        => \A i \in DOMAIN Val(resp.body) :
              \E f \in FilesOf(req.q) :
                 \E j \in DOMAIN RecordsIn(f) : RecordsIn(f)[j] = Val(resp.body)[i]

\* the server_timestamp of a record line
StampOf(line) == Val(line[2]).server_timestamp[2]

\* C16: in every partition file the server_timestamp values of the records
\* never decrease from one line to a later one, also while several /collect
\* requests for the partition are in flight.
C16_TimestampsNonDecreasing ==
    \A f \in DOMAIN fs :
        \A i, j \in DOMAIN fs[f].lines :
            (i < j /\ fs[f].lines[i][1] = "json" /\ fs[f].lines[j][1] = "json")
                => StampOf(fs[f].lines[i]) <= StampOf(fs[f].lines[j])

AllReturned == \A h \in HandlerIds : handlers[h].pc = "done"
Occurrences(lines, line) == Cardinality({i \in DOMAIN lines : lines[i] = line})

\* C17: when the /collect requests that ran in parallel have all returned 200,
\* every line of every partition file is a complete record, and each file
\* holds, next to what it held before, exactly one line for each request that
\* wrote to it.
C17_OneLinePerRequest ==
    AllReturned
        => /\ \A f \in DOMAIN fs :
                 /\ \A i \in DOMAIN fs[f].lines : fs[f].lines[i][1] = "json"
                 /\ Len(fs[f].lines) =
                       Occurrences(fs[f].lines, json_dumps(Record0))
                         + Cardinality({h \in HandlerIds : handlers[h].filename = f})
           /\ \A h \in HandlerIds :
                 /\ handlers[h].filename \in DOMAIN fs
                 /\ Occurrences(fs[handlers[h].filename].lines,
                                json_dumps(handlers[h].record)) = 1

\* the handlers that were in flight at some time during the query
Overlapping == reader.overlap \cup {h \in HandlerIds : handlers[h].during}

\* the storage as it is once handler h has finished its write
FinishedStore(h) ==
    LET w == handlers[h]
    IN  IF w.pc = "partial" THEN write(fs, w.filename, "tail", w.record)
        ELSE IF w.pc = "opened" THEN write(fs, w.filename, "whole", w.record)
        ELSE IF w.pc = "stamped"
             THEN write(open_append(fs, w.filename), w.filename, "whole", w.record)
        ELSE fs

\* the query returns, having run beside one POST /collect from the queried
\* address, which had partition files when the query arrived
QueryReturnsBesideWrite(h) ==
    /\ reader.pc # "done" /\ reader'.pc = "done"
    /\ reader.before.status = 200
    /\ Overlapping = {h}
    /\ handlers[h].client = reader.q

\* C18 as stated: a query that runs while one POST /collect to a file of its
\* address is in flight answers 200 with all records without the new one or
\* all records with it, and no partially written line is handed to the parser.
C18_NoPartialLineParsed ==
    [][\A h \in HandlerIds :
          QueryReturnsBesideWrite(h)
            => /\ resp'.status = 200
               /\ resp' \in {reader.before, query_data(FinishedStore(h), TRUE, reader.q)}
               /\ ~reader'.torn]_vars

\* C18, corrected: a query that runs while one POST /collect to a file of its
\* address is in flight answers 200 with all records without the new one or
\* all records with it; a partially written line it reads adds nothing and
\* takes nothing away.
C18_AllOrNothing ==
    [][\A h \in HandlerIds :
          QueryReturnsBesideWrite(h)
            => /\ resp'.status = 200
               /\ resp' \in {reader.before, query_data(FinishedStore(h), TRUE, reader.q)}]_vars

\* a query has returned the earlier records after reading the head of the line
\* that the one handler in flight was writing
C18_Witness ==
    /\ reader.pc = "done"
    /\ reader.torn
    /\ reader.before.status = 200
    /\ resp = reader.before
    /\ Val(resp.body) # <<>>
    /\ \E h \in HandlerIds :
          /\ Overlapping = {h}
          /\ handlers[h].client = reader.q
          /\ handlers[h].pc \in {"partial", "done"}

\* C19: the agent's first event is a cycle, started at startup before any
\* wait; from then on, whenever the loop polls, the job is armed to be due
\* exactly one interval after it was last armed, which was not before the last
\* cycle ended; and every later cycle starts at least one interval after that
\* arming.
C19_EagerThenEveryInterval ==
    /\ [](agent.cycle = 0 => agent.pc = "startup" /\ agent.at = 0)
    /\ [][agent.pc = "startup"
            => agent'.pc = "get_system_info" /\ agent'.cycle = 1 /\ agent'.at = 0]_vars
    /\ [](agent.pc \in {"run_pending", "sleep"}
            => /\ agent.armedAt >= agent.lastEnd
               /\ agent.next_run = agent.armedAt + COLLECTION_INTERVAL_MINUTES)
    /\ [][(CycleStarts /\ agent.cycle >= 1)
            => /\ agent.armedAt >= 0
               /\ agent.at - agent.armedAt >= COLLECTION_INTERVAL_MINUTES]_vars

\* the third cycle starts, one interval after the second one re-armed the job
C19_Witness ==
    /\ agent.cycle >= 3
    /\ agent.pc = "get_system_info"
    /\ agent.caller = "run_pending"
    /\ agent.at = agent.began
    /\ agent.began = agent.armedAt + COLLECTION_INTERVAL_MINUTES

\* C20: every record stored in the file <address>_<D>.jsonl has a
\* server_timestamp whose calendar date is D.
C20_TimestampDateIsFileDate ==
    \A f \in DOMAIN fs :
        \A i \in DOMAIN fs[f].lines :
            fs[f].lines[i][1] = "json" => strftime(StampOf(fs[f].lines[i])) = f[2]

====
